---- MODULE Spec2Model ----
(***************************************************************************)
(* FaceBlur content script (src/src/content.ts) and its matcher            *)
(* (src/src/faceRecognition.ts) as a state machine.                        *)
(*                                                                         *)
(* One macrotask of the page's event loop is one action: a timer firing,   *)
(* a MutationObserver callback, an inbound runtime message, the            *)
(* resumption of a processImage call after `await detectFaces`, a click.   *)
(* Promise continuations that run in microtasks right after a macrotask    *)
(* (Promise.all settling, the while loop of processQueue going round) are  *)
(* part of the action that triggers them.                                  *)
(*                                                                         *)
(* Numbers: descriptor components and distances are in tenths, so the      *)
(* threshold 0.6 is 6 and `distance < threshold` is decided on squares     *)
(* (sqrt is monotone on the non-negative numbers).                         *)
(***************************************************************************)
EXTENDS Integers, Sequences, FiniteSets, TLC

\* ------------------------------------------------------------------ bounds

NumImages == 8      \* <img> elements the documents draw from
MaxQueue == 6       \* a discovery pass is not taken when it would grow the queue beyond this
MaxTimers == 1      \* pending setTimeout(scanPage) timers
MaxListeners == 2   \* click handlers attached to one image
MaxDim == 2         \* longest descriptor drawn for the matcher on its own
MaxLandmarks == 1   \* longest landmark list drawn for the hash matcher
MaxPhotos == 3      \* photo ids the popup gives out
MaxRuns == 2        \* saveAndDisplay calls awaiting at one time
MaxBurstPasses == 2 \* observer passes followed within one burst of notifications

\* ------------------------------------------------------- program constants

MIN_IMAGE_SIZE == 100
MAX_CONCURRENT == 5
\* compareFaces' default threshold 0.6, in tenths
DefaultThreshold == 6
\* the hash matcher's default threshold 0.15, in hundredths
HashThreshold == 15
\* the observer's timer delay 300 ms, in ticks of 100 ms
QuietTicks == 3

Images == 1..NumImages

\* ---------------------------------------------------------------- the page
\* What an image is is fixed per image; the script only reads it.
\*   1     too small           2     cross-origin, pixels unreadable
\*   3     two faces, still loading when the script starts
\*   4     large, readable, loaded, one face that resembles no reference
\*   5     large, readable, loaded, no face; face-api's detection call
\*         throws on it
\*   6..   large, readable, loaded, no face

\* img.naturalWidth / img.naturalHeight
naturalWidth(i) == IF i = 1 THEN 50 ELSE 200
naturalHeight(i) == IF i = 1 THEN 50 ELSE 150

\* whether ctx.drawImage + ctx.getImageData succeed (same-origin image)
PixelsReadable(i) == i # 2

\* img.complete when the script starts
InitiallyComplete(i) == i # 3

\* img.style.filter before the script touches the image
PriorFilter(i) == IF i = 3 THEN "grayscale(1)" ELSE ""

NoDescriptor == <<-1>>

\* the 128-d descriptors, shortened to 2 components (tenths)
DescA == <<0, 0>>
DescNearA == <<3, 3>>
DescB == <<10, 0>>
DescNearB == <<10, 3>>
DescOther == <<5, 5>>
DescShort == <<0>>

\* whether faceapi.detectAllFaces(...) throws on the image
DetectionThrows(i) == i = 5

\* what face-api finds in the image: a sequence of detections
Faces(i) ==
    CASE i = 1 -> << [descriptor |-> DescNearA] >>
      [] i = 2 -> << [descriptor |-> DescNearA] >>
      [] i = 3 -> << [descriptor |-> DescNearA], [descriptor |-> DescOther] >>
      [] i = 4 -> << [descriptor |-> DescOther] >>
      [] OTHER -> << >>

\* the documents the script is run on: a mixed page and a page of many
\* plain images
MixedPage == { i \in Images : i <= 3 }
CrowdPage == { i \in Images : i >= 4 }
Documents == { MixedPage, CrowdPage }

\* reference sets a message or the storage may carry
RefChoices ==
    { << >>,
      << [descriptor |-> DescA] >>,
      << [descriptor |-> DescB] >>,
      << [descriptor |-> DescShort], [descriptor |-> DescA] >>,
      << [descriptor |-> DescA], [descriptor |-> DescShort] >> }

VARIABLES
    document,               \* the <img> elements of the page
    isEnabled,              \* content.ts:3
    referenceFingerprints,  \* content.ts:4
    processedImages,        \* content.ts:5
    failedImages,           \* content.ts:6
    processingQueue,        \* content.ts:13
    isProcessing,           \* content.ts:14
    drain,                  \* where processQueue's loop stands: "idle", "batch", "delay"
    inflight,               \* per image, the processImage calls awaiting detectFaces
    scanTimers,             \* pending setTimeout(() => scanPage(), ...)
    observerTimeout,        \* content.ts:215, TRUE when a timer id is held
    complete,               \* images with img.complete
    dom,                    \* per image: dataset, style, title, click handlers
    started,                \* history: images processImage was called on
    detectInvoked,          \* history: images detectFaces was called on
    interrupted,            \* history: images in processing when the latest message arrived
    passRan,                \* history: a discovery pass has enumerated the document
    suppressedAtDisable,    \* history: images carrying the marker when toggleBlur(false) arrived
    responses,              \* sendResponse calls made by the latest task
    resetAtUpdate,          \* history: images carrying the marker when the latest updateReferences arrived
    detectionsSince,        \* history: per image of resetAtUpdate, what detectFaces has handed back since
    threw,                  \* history: images whose processImage call entered the catch block
    remoteRequests,         \* URLs the extension has fetched from
    timerAge,               \* the observer timing: 100 ms ticks since the observer's timer was armed
    quietAge,               \* ... ticks since the latest mutation notification, up to QuietTicks
    burstPasses,            \* ... observer passes run since the current burst began
    priorAtApply,           \* the controller on its own: per image, style.filter before the latest blurImage
    fp1, fp2, cmpResult     \* the matcher on its own: two fingerprints and compareFaces' outcome

pipeVars == << document, isEnabled, referenceFingerprints, processedImages, failedImages,
               processingQueue, isProcessing, drain, inflight, scanTimers,
               observerTimeout, complete, dom, started, detectInvoked,
               interrupted, passRan, suppressedAtDisable, responses,
               resetAtUpdate, detectionsSince, threw >>
clockVars == << timerAge, quietAge, burstPasses >>
cmpVars == << fp1, fp2, cmpResult >>

\* src/src/popup.ts
VARIABLES
    referenceImages,        \* the popup's array of reference photos, by photo id (4)
    runs,                   \* the saveAndDisplay calls that are awaiting a face extraction
    displayed,              \* the photos that have a remove button (169-187)
    stored,                 \* chrome.storage.local: referenceImages and faceFingerprints
    broadcast,              \* the fingerprints of the last updateReferences sent to the tabs
    uploading,              \* the file handleFiles is awaiting, or NoFile
    uploaded                \* the photo ids given out so far

popupVars == << referenceImages, runs, displayed, stored, broadcast, uploading, uploaded >>

NoFile == 0

\* the popup has not been opened and nothing is stored
PopupClosed ==
    /\ referenceImages = << >>
    /\ runs = << >>
    /\ displayed = {}
    /\ stored = [referenceImages |-> << >>, faceFingerprints |-> << >>]
    /\ broadcast = << >>
    /\ uploading = NoFile
    /\ uploaded = {}
vars == << pipeVars, remoteRequests, clockVars, priorAtApply, cmpVars, popupVars >>

\* ------------------------------------------------------------- the matcher
\* src/src/faceRecognition.ts

Sq(x) == x * x

RECURSIVE SumSq(_, _, _)
SumSq(a, b, k) == IF k = 0 THEN 0 ELSE Sq(a[k] - b[k]) + SumSq(a, b, k - 1)

\* faceapi.euclideanDistance refuses arrays of different length
euclideanDistanceThrows(a, b) == Len(a) # Len(b)

\* the square of faceapi.euclideanDistance(a, b), for arrays of one length
euclideanDistanceSq(a, b) == SumSq(a, b, Len(a))

\* where the three networks are loaded from (faceRecognition.ts:7)
MODEL_URL == "https://cdn.jsdelivr.net/npm/@vladmandic/face-api/model"

\* initializeDetector() (10-29), first call: the three loadFromUri(MODEL_URL)
\* calls fetch the model files; requests is what has been fetched before
initializeDetector(requests) == requests \cup {MODEL_URL}

createFingerprint(detection) == [descriptor |-> detection.descriptor]

\* faulty variant: the comparison turned round
compareFacesAtFlipped(a, b, threshold) ==
    IF a.descriptor = NoDescriptor \/ b.descriptor = NoDescriptor THEN "false"
    ELSE IF euclideanDistanceThrows(a.descriptor, b.descriptor) THEN "throw"
    ELSE IF euclideanDistanceSq(a.descriptor, b.descriptor) > Sq(threshold)
         THEN "true" ELSE "false"

\* compareFaces(fp1, fp2, threshold): "true", "false", or "throw" when the
\* distance computation raises
compareFacesAt(a, b, threshold) ==
    IF a.descriptor = NoDescriptor \/ b.descriptor = NoDescriptor THEN "false"
    ELSE IF euclideanDistanceThrows(a.descriptor, b.descriptor) THEN "throw"
    ELSE IF euclideanDistanceSq(a.descriptor, b.descriptor) < Sq(threshold)
         THEN "true" ELSE "false"

\* compareFaces with its default threshold, as content.ts calls it
compareFaces(a, b) == compareFacesAt(a, b, DefaultThreshold)

\* ------------------------------------------------ the suppression controller
\* src/src/content.ts:176-212, on one image's record

Absent == "<absent>"

InitialDom(i) ==
    [ blurred |-> FALSE, originalFilter |-> Absent, filter |-> PriorFilter(i),
      cursor |-> "", title |-> "", listeners |-> 0 ]

\* String.includes('blur') on the filters the model uses
IncludesBlur(f) == f \in {"blur(20px)", "blur(2px)"}

\* x || 'none' on a string
OrNone(f) == IF f = "" \/ f = Absent THEN "none" ELSE f

\* faulty variant: the early return on the marker is missing
blurImageNoGuard(d) ==
    [ d EXCEPT !.blurred = TRUE,
               !.originalFilter = OrNone(d.filter),
               !.filter = "blur(20px)",
               !.cursor = "pointer",
               !.title = "Click to temporarily unblur",
               !.listeners = @ + 1 ]

blurImage(d) ==
    IF d.blurred THEN d
    ELSE [ d EXCEPT !.blurred = TRUE,
                    !.originalFilter = OrNone(d.filter),
                    !.filter = "blur(20px)",
                    !.cursor = "pointer",
                    !.title = "Click to temporarily unblur",
                    \* removeEventListener is given a fresh closure and removes nothing
                    !.listeners = @ + 1 ]

\* faulty variant: the marker is left on the element
unblurImageKeepsMarker(d) ==
    [ d EXCEPT !.filter = OrNone(d.originalFilter),
               !.cursor = "default",
               !.title = "" ]

unblurImage(d) ==
    [ d EXCEPT !.filter = OrNone(d.originalFilter),
               !.cursor = "default",
               !.title = "",
               !.blurred = FALSE,
               !.originalFilter = Absent ]

\* one run of the click handler blurImage attaches
toggleBlur(d) ==
    IF IncludesBlur(d.filter)
    THEN [ d EXCEPT !.filter = "none", !.title = "Click to blur again" ]
    ELSE [ d EXCEPT !.filter = "blur(20px)", !.title = "Click to temporarily unblur" ]

\* a click runs every attached handler in turn
RECURSIVE RunHandlers(_, _)
RunHandlers(d, n) == IF n = 0 THEN d ELSE RunHandlers(toggleBlur(d), n - 1)

\* document.querySelectorAll('img[data-faceblur-blurred="true"]')
BlurredImages(D) == { i \in Images : D[i].blurred }

\* ------------------------------------------------------------ the scheduler
\* src/src/content.ts:44-173

Min(a, b) == IF a < b THEN a ELSE b

\* document.querySelectorAll('img'), in document order
InDocument(i) == i \in document
DocumentImages == SelectSeq([k \in 1..NumImages |-> k], InDocument)

\* faulty variant: the two membership tests are missing from the filter
EligibleIgnoresSets(i) ==
    /\ i \in complete
    /\ naturalWidth(i) >= MIN_IMAGE_SIZE
    /\ naturalHeight(i) >= MIN_IMAGE_SIZE

\* faulty variant: the size test is missing from the filter
EligibleAnySize(i) ==
    /\ i \notin processedImages
    /\ i \notin failedImages
    /\ i \in complete

\* the filter of scanPage (54-60) and of the observer pass (228-236)
Eligible(i) ==
    /\ i \notin processedImages
    /\ i \notin failedImages
    /\ i \in complete
    /\ naturalWidth(i) >= MIN_IMAGE_SIZE
    /\ naturalHeight(i) >= MIN_IMAGE_SIZE

imagesToProcess == SelectSeq(DocumentImages, Eligible)

\* createCanvasFromImage(img) returns a canvas, not null
createCanvasFromImage(i) == PixelsReadable(i)

\* the inner loop of processImage (151-156): one detected fingerprint
\* against the references in order, stopping at the first match or throw
RECURSIVE MatchReferences(_, _)
MatchReferences(fp, refs) ==
    IF refs = << >> THEN "false"
    ELSE LET c == compareFaces(fp, Head(refs))
         IN IF c = "false" THEN MatchReferences(fp, Tail(refs)) ELSE c

\* faulty variant: shouldBlur is whatever the last detection gave
RECURSIVE MatchDetectionsLastWins(_, _)
MatchDetectionsLastWins(dets, refs) ==
    IF dets = << >> THEN "false"
    ELSE LET m == MatchReferences(createFingerprint(Head(dets)), refs)
         IN IF m = "throw" \/ Len(dets) = 1 THEN m
            ELSE MatchDetectionsLastWins(Tail(dets), refs)

\* the outer loop of processImage (148-159): "true" is shouldBlur, "throw"
\* enters the catch block
RECURSIVE MatchDetections(_, _)
MatchDetections(dets, refs) ==
    IF dets = << >> THEN "false"
    ELSE LET m == MatchReferences(createFingerprint(Head(dets)), refs)
         IN IF m = "false" THEN MatchDetections(Tail(dets), refs) ELSE m

\* faulty variant: the read probe's result is ignored
processImageStartNoProbe(img, st) ==
    IF img \in st.processed \/ img \in st.failed
    THEN [st EXCEPT !.started = @ \cup {img}]
    ELSE IF dom[img].blurred
    THEN [st EXCEPT !.started = @ \cup {img}, !.processed = @ \cup {img}]
    ELSE [st EXCEPT !.started = @ \cup {img}, !.awaiting[img] = @ + 1,
                    !.invoked = @ \cup {img}]

\* processImage up to `await detectFaces(img)` (120-138); st carries the
\* two membership sets, the calls awaiting detection and the histories
processImageStart(img, st) ==
    IF img \in st.processed \/ img \in st.failed
    THEN [st EXCEPT !.started = @ \cup {img}]
    ELSE IF dom[img].blurred
    THEN [st EXCEPT !.started = @ \cup {img}, !.processed = @ \cup {img}]
    ELSE IF ~createCanvasFromImage(img)
    THEN [st EXCEPT !.started = @ \cup {img}, !.failed = @ \cup {img}]
    ELSE [st EXCEPT !.started = @ \cup {img}, !.awaiting[img] = @ + 1,
                    !.invoked = @ \cup {img}]

\* batch.map(img => processImage(img)): the calls start one after another
RECURSIVE StartBatch(_, _)
StartBatch(batch, st) ==
    IF batch = << >> THEN st
    ELSE StartBatch(Tail(batch), processImageStart(Head(batch), st))

\* faulty variant: one entry too many
BatchOfOverfull(q) == SubSeq(q, 1, Min(MAX_CONCURRENT + 1, Len(q)))

\* processingQueue.splice(0, MAX_CONCURRENT): what it returns
BatchOf(q) == SubSeq(q, 1, Min(MAX_CONCURRENT, Len(q)))

\* ... and what it leaves in the queue
AfterSplice(q) == SubSeq(q, Len(BatchOf(q)) + 1, Len(q))

InFlight(w) == { i \in Images : w[i] > 0 }

RECURSIVE SumOver(_, _)
SumOver(w, k) == IF k = 0 THEN 0 ELSE w[k] + SumOver(w, k - 1)

\* processImage calls started and not yet settled
InFlightCount == SumOver(inflight, NumImages)

\* one turn of processQueue's while loop (77-93), from the splice to the
\* next point where the loop waits
DrainLoop(q) ==
    LET st == StartBatch(BatchOf(q),
                         [ processed |-> processedImages, failed |-> failedImages,
                           awaiting |-> inflight, started |-> started,
                           invoked |-> detectInvoked ])
        rest == AfterSplice(q)
    IN /\ processedImages' = st.processed
       /\ failedImages' = st.failed
       /\ inflight' = st.awaiting
       /\ started' = st.started
       /\ detectInvoked' = st.invoked
       /\ processingQueue' = rest
       /\ IF InFlight(st.awaiting) # {}
          THEN drain' = "batch" /\ isProcessing' = TRUE
          ELSE IF rest # << >>
               THEN drain' = "delay" /\ isProcessing' = TRUE
               ELSE drain' = "idle" /\ isProcessing' = FALSE

\* faulty variant: the isProcessing guard is missing
processQueueNoGuard(q) ==
    IF q = << >>
    THEN /\ processingQueue' = q
         /\ UNCHANGED << processedImages, failedImages, inflight, started, detectInvoked,
                         drain, isProcessing >>
    ELSE DrainLoop(q)

\* processQueue() called with q in the queue (69-98)
processQueue(q) ==
    IF isProcessing \/ q = << >>
    THEN /\ processingQueue' = q
         /\ UNCHANGED << processedImages, failedImages, inflight, started, detectInvoked,
                         drain, isProcessing >>
    ELSE DrainLoop(q)

\* scanPage() (44-66)
scanPage ==
    IF ~isEnabled \/ Len(referenceFingerprints) = 0
    THEN UNCHANGED << processingQueue, processedImages, failedImages, inflight,
                      started, detectInvoked, drain, isProcessing, passRan >>
    ELSE /\ passRan' = TRUE
         /\ processQueue(processingQueue \o imagesToProcess)

\* ------------------------------------------------------------------ actions

\* the state once initializeDetector (21) has succeeded and the storage
\* callback (29-38) has run
Init ==
    /\ document \in Documents
    /\ isEnabled \in BOOLEAN
    /\ referenceFingerprints \in RefChoices
    /\ scanTimers = IF isEnabled /\ Len(referenceFingerprints) > 0 THEN 1 ELSE 0
    /\ processedImages = {}
    /\ failedImages = {}
    /\ processingQueue = << >>
    /\ isProcessing = FALSE
    /\ drain = "idle"
    /\ inflight = [i \in Images |-> 0]
    /\ observerTimeout = FALSE
    /\ complete = { i \in document : InitiallyComplete(i) }
    /\ dom = [i \in Images |-> InitialDom(i)]
    /\ started = {}
    /\ detectInvoked = {}
    /\ interrupted = {}
    /\ passRan = FALSE
    /\ suppressedAtDisable = {}
    /\ responses = 0
    /\ resetAtUpdate = {}
    /\ detectionsSince = [i \in Images |-> {}]
    /\ threw = {}
    /\ remoteRequests = initializeDetector({})
    /\ timerAge = 0
    /\ quietAge = QuietTicks
    /\ burstPasses = 0
    /\ priorAtApply = [i \in Images |-> Absent]
    /\ fp1 = [descriptor |-> NoDescriptor]
    /\ fp2 = [descriptor |-> NoDescriptor]
    /\ cmpResult = "none"
    /\ PopupClosed

\* a discovery pass that would push onto the queue is bounded by MaxQueue
QueueHasRoom == Len(processingQueue) + Len(imagesToProcess) <= MaxQueue

\* a setTimeout(() => scanPage(), ...) fires (36, 266, 271, 287)
ScanTimerFires ==
    /\ responses' = 0
    /\ scanTimers > 0
    /\ (isEnabled /\ Len(referenceFingerprints) > 0) => QueueHasRoom
    /\ scanTimers' = scanTimers - 1
    /\ scanPage
    /\ UNCHANGED << document, isEnabled, referenceFingerprints, observerTimeout,
                    complete, dom, interrupted, suppressedAtDisable, resetAtUpdate,
                    detectionsSince, threw, remoteRequests, clockVars,
                    priorAtApply, cmpVars, popupVars >>

\* faulty variant: the callback arms the timer whatever the flag says
observerCallbackUnguarded == observerTimeout' = TRUE

\* the MutationObserver callback (217-222): it arms the 300 ms timer
observerCallback ==
    observerTimeout' =
        IF isEnabled /\ Len(referenceFingerprints) > 0 THEN TRUE ELSE observerTimeout

MutationObserved ==
    /\ responses' = 0
    /\ observerCallback
    /\ UNCHANGED << document, isEnabled, referenceFingerprints, processedImages,
                    failedImages, processingQueue, isProcessing, drain, inflight,
                    scanTimers, complete, dom, started, detectInvoked, interrupted,
                    passRan, suppressedAtDisable, resetAtUpdate,
                    detectionsSince, threw, remoteRequests, clockVars,
                    priorAtApply, cmpVars, popupVars >>

\* faulty variant: the timer id is not cleared
observerPassKeepsTimerId ==
    /\ observerTimeout' = observerTimeout
    /\ passRan' = TRUE
    /\ IF Len(imagesToProcess) > 0
       THEN processQueue(processingQueue \o imagesToProcess)
       ELSE UNCHANGED << processingQueue, processedImages, failedImages, inflight,
                         started, detectInvoked, drain, isProcessing >>

\* the body of the observer's timer callback (222-243): one discovery pass
observerPass ==
    /\ observerTimeout' = FALSE
    /\ passRan' = TRUE
    /\ IF Len(imagesToProcess) > 0
       THEN processQueue(processingQueue \o imagesToProcess)
       ELSE UNCHANGED << processingQueue, processedImages, failedImages, inflight,
                         started, detectInvoked, drain, isProcessing >>

\* the observer's timer fires (222-243)
ObserverTimerFires ==
    /\ responses' = 0
    /\ observerTimeout
    /\ QueueHasRoom
    /\ observerPass
    /\ UNCHANGED << document, isEnabled, referenceFingerprints, scanTimers, complete,
                    dom, interrupted, suppressedAtDisable, resetAtUpdate,
                    detectionsSince, threw, remoteRequests, clockVars,
                    priorAtApply, cmpVars, popupVars >>

\* faulty variant: the images keep their marker and their blur
UnblurAllKeeps(D) == D

\* forEach(img => unblurImage(img)) over the images carrying the marker
UnblurAll(D) == [i \in Images |-> IF D[i].blurred THEN unblurImage(D[i]) ELSE D[i]]

\* faulty variant: only the known actions are answered
sendResponseKnownOnly(action) ==
    responses' = IF action \in {"toggleBlur", "scanPage", "updateReferences"} THEN 1 ELSE 0

\* sendResponse({ success: true }) at the end of the listener (291)
sendResponse(action) == responses' = 1

\* message { action: 'toggleBlur', enabled } (256-267)
ToggleBlurMessage(enabled) ==
    /\ sendResponse("toggleBlur")
    /\ isEnabled' = enabled
    /\ IF ~enabled
       THEN /\ dom' = UnblurAll(dom)
            /\ processingQueue' = << >>
            /\ suppressedAtDisable' = BlurredImages(dom)
            /\ UNCHANGED scanTimers
       ELSE /\ scanTimers < MaxTimers
            /\ scanTimers' = scanTimers + 1
            /\ UNCHANGED << dom, processingQueue, suppressedAtDisable >>
    /\ interrupted' = InFlight(inflight)
    /\ resetAtUpdate' = {}
    /\ detectionsSince' = [i \in Images |-> {}]
    /\ UNCHANGED << document, referenceFingerprints, processedImages, failedImages,
                    isProcessing, drain, inflight, observerTimeout, complete, started,
                    detectInvoked, passRan, threw, remoteRequests, clockVars,
                    priorAtApply, cmpVars, popupVars >>

\* message { action: 'scanPage' } (268-271)
ScanPageMessage ==
    /\ sendResponse("scanPage")
    /\ scanTimers < MaxTimers
    /\ processingQueue' = << >>
    /\ scanTimers' = scanTimers + 1
    /\ interrupted' = InFlight(inflight)
    /\ UNCHANGED << document, isEnabled, referenceFingerprints, processedImages,
                    failedImages, isProcessing, drain, inflight, observerTimeout,
                    complete, dom, started, detectInvoked, passRan,
                    suppressedAtDisable, resetAtUpdate,
                    detectionsSince, threw, remoteRequests, clockVars,
                    priorAtApply, cmpVars, popupVars >>

\* message { action: 'updateReferences', fingerprints } (272-289)
UpdateReferencesMessage(fingerprints) ==
    /\ sendResponse("updateReferences")
    /\ referenceFingerprints' = fingerprints
    /\ dom' = UnblurAll(dom)
    /\ processedImages' = processedImages \ BlurredImages(dom)
    /\ failedImages' = failedImages \ BlurredImages(dom)
    /\ processingQueue' = << >>
    /\ IF isEnabled /\ Len(fingerprints) > 0
       THEN scanTimers < MaxTimers /\ scanTimers' = scanTimers + 1
       ELSE UNCHANGED scanTimers
    /\ interrupted' = InFlight(inflight)
    /\ suppressedAtDisable' = {}
    /\ resetAtUpdate' = BlurredImages(dom)
    /\ detectionsSince' = [i \in Images |-> {}]
    /\ threw' = threw \ BlurredImages(dom)
    /\ UNCHANGED << document, isEnabled, isProcessing, drain, inflight,
                    observerTimeout, complete, started, detectInvoked, passRan,
                    remoteRequests, clockVars,
                    priorAtApply, cmpVars, popupVars >>

\* a message whose action the listener does not know (253-254, 291-292)
UnknownMessage ==
    /\ sendResponse("unknown")
    /\ interrupted' = InFlight(inflight)
    /\ UNCHANGED << document, isEnabled, referenceFingerprints, processedImages,
                    failedImages, processingQueue, isProcessing, drain, inflight,
                    scanTimers, observerTimeout, complete, dom, started, detectInvoked,
                    passRan, suppressedAtDisable, resetAtUpdate,
                    detectionsSince, threw, remoteRequests, clockVars,
                    priorAtApply, cmpVars, popupVars >>

\* what `await detectFaces(img)` may hand back (faceRecognition.ts:32-61):
\* the faces found, or [] when detection failed inside its own try block
DetectOutcomes(i) == IF DetectionThrows(i) THEN { << >> } ELSE { Faces(i), << >> }

\* faulty variant: the catch block does not record the image
CommitResultForgetsThrow(i, m) ==
    /\ dom' = IF m = "true" THEN [dom EXCEPT ![i] = blurImage(@)] ELSE dom
    /\ processedImages' = IF m = "throw" THEN processedImages
                          ELSE processedImages \cup {i}
    /\ failedImages' = failedImages

\* the three ways processImage ends once the matching loops are done
\* (161-171): m is "true" (shouldBlur), "false", or "throw" (the catch block)
CommitResult(i, m) ==
    /\ dom' = IF m = "true" THEN [dom EXCEPT ![i] = blurImage(@)] ELSE dom
    /\ processedImages' = IF m = "throw" THEN processedImages
                          ELSE processedImages \cup {i}
    /\ failedImages' = IF m = "throw" THEN failedImages \cup {i} ELSE failedImages

\* faulty variant: a result that arrives while the feature is off is dropped
processImageResumeDropsWhenOff(i, detections) ==
    IF ~isEnabled
    THEN UNCHANGED << dom, processedImages, failedImages >>
    ELSE CommitResult(i, MatchDetections(detections, referenceFingerprints))

\* processImage after `await detectFaces` (140-172)
processImageResume(i, detections) ==
    CommitResult(i, MatchDetections(detections, referenceFingerprints))

\* a processImage call resumes; when it was the last call of the batch,
\* Promise.all settles and the loop of processQueue goes on (84-96)
DetectionCompletes(i, detections) ==
    /\ responses' = 0
    /\ inflight[i] > 0
    /\ ( /\ MatchDetections(detections, referenceFingerprints) = "true"
         /\ ~dom[i].blurred ) => dom[i].listeners < MaxListeners
    /\ processImageResume(i, detections)
    /\ threw' = IF MatchDetections(detections, referenceFingerprints) = "throw"
                THEN threw \cup {i} ELSE threw
    /\ detectionsSince' = IF i \in resetAtUpdate
                          THEN [detectionsSince EXCEPT ![i] = @ \cup {detections}]
                          ELSE detectionsSince
    /\ LET w == [inflight EXCEPT ![i] = @ - 1]
       IN /\ inflight' = w
          /\ IF InFlight(w) # {}
             THEN UNCHANGED << drain, isProcessing >>
             ELSE IF Len(processingQueue) > 0
                  THEN drain' = "delay" /\ isProcessing' = TRUE
                  ELSE drain' = "idle" /\ isProcessing' = FALSE
    /\ UNCHANGED << document, isEnabled, referenceFingerprints, processingQueue,
                    scanTimers, observerTimeout, complete, started, detectInvoked,
                    interrupted, passRan, suppressedAtDisable, resetAtUpdate,
                    remoteRequests, clockVars,
                    priorAtApply, cmpVars, popupVars >>

\* the PROCESS_DELAY timer of processQueue fires (91-93) and the loop
\* condition is tested again
DelayElapses ==
    /\ responses' = 0
    /\ drain = "delay"
    /\ IF Len(processingQueue) > 0
       THEN DrainLoop(processingQueue)
       ELSE /\ drain' = "idle"
            /\ isProcessing' = FALSE
            /\ UNCHANGED << processingQueue, processedImages, failedImages, inflight,
                            started, detectInvoked >>
    /\ UNCHANGED << document, isEnabled, referenceFingerprints, scanTimers,
                    observerTimeout, complete, dom, interrupted, passRan,
                    suppressedAtDisable, resetAtUpdate,
                    detectionsSince, threw, remoteRequests, clockVars,
                    priorAtApply, cmpVars, popupVars >>

\* an image finishes loading
ImageLoads(i) ==
    /\ responses' = 0
    /\ i \in document
    /\ i \notin complete
    /\ complete' = complete \cup {i}
    /\ UNCHANGED << document, isEnabled, referenceFingerprints, processedImages,
                    failedImages, processingQueue, isProcessing, drain, inflight,
                    scanTimers, observerTimeout, dom, started, detectInvoked,
                    interrupted, passRan, suppressedAtDisable, resetAtUpdate,
                    detectionsSince, threw, remoteRequests, clockVars,
                    priorAtApply, cmpVars, popupVars >>

\* the user clicks an image that has click handlers (187-201)
Click(i) ==
    /\ responses' = 0
    /\ dom[i].listeners > 0
    /\ dom' = [dom EXCEPT ![i] = RunHandlers(@, @.listeners)]
    /\ UNCHANGED << document, isEnabled, referenceFingerprints, processedImages,
                    failedImages, processingQueue, isProcessing, drain, inflight,
                    scanTimers, observerTimeout, complete, started, detectInvoked,
                    interrupted, passRan, suppressedAtDisable, resetAtUpdate,
                    detectionsSince, threw, remoteRequests, clockVars,
                    priorAtApply, cmpVars, popupVars >>

Next ==
    \/ ScanTimerFires
    \/ MutationObserved
    \/ ObserverTimerFires
    \/ \E enabled \in BOOLEAN : ToggleBlurMessage(enabled)
    \/ ScanPageMessage
    \/ \E fingerprints \in RefChoices : UpdateReferencesMessage(fingerprints)
    \/ UnknownMessage
    \/ \E i \in Images : \E detections \in DetectOutcomes(i) : DetectionCompletes(i, detections)
    \/ DelayElapses
    \/ \E i \in Images : ImageLoads(i)
    \/ \E i \in Images : Click(i)

Spec == Init /\ [][Next]_vars

\* the drain with what its scheduling guarantees, on the mixed page with
\* the extension enabled and one reference: the PROCESS_DELAY timer fires,
\* and every detection call comes back; what the page and the popup do
\* (mutations, loads, messages) and the scan and observer timers are
\* under no obligation
DetectionReturns(i) == \E detections \in DetectOutcomes(i) : DetectionCompletes(i, detections)

DrainRefs ==
    { << [descriptor |-> DescA] >>,
      << [descriptor |-> DescShort], [descriptor |-> DescA] >> }

InitDrain ==
    /\ Init
    /\ document = MixedPage
    /\ isEnabled
    /\ referenceFingerprints \in DrainRefs

NextDrain ==
    \/ ScanTimerFires
    \/ MutationObserved
    \/ ObserverTimerFires
    \/ \E enabled \in BOOLEAN : ToggleBlurMessage(enabled)
    \/ ScanPageMessage
    \/ \E fingerprints \in DrainRefs : UpdateReferencesMessage(fingerprints)
    \/ \E i \in MixedPage : DetectionReturns(i)
    \/ DelayElapses
    \/ \E i \in MixedPage : ImageLoads(i)

SpecDrain ==
    /\ InitDrain
    /\ [][NextDrain]_vars
    /\ WF_vars(DelayElapses)
    /\ \A i \in MixedPage : WF_vars(DetectionReturns(i))

\* ------------------------------------------------- the matcher on its own

\* descriptor components (tenths) and the descriptors up to MaxDim long
Components == {0, 3, 6}
Descriptors == UNION { [1..n -> Components] : n \in 0..MaxDim }
Fingerprints == { [descriptor |-> d] : d \in Descriptors \cup {NoDescriptor} }

InitCompare ==
    /\ fp1 \in Fingerprints
    /\ fp2 \in Fingerprints
    /\ cmpResult = "none"
    /\ document = MixedPage
    /\ isEnabled = FALSE
    /\ referenceFingerprints = << >>
    /\ scanTimers = 0
    /\ processedImages = {}
    /\ failedImages = {}
    /\ processingQueue = << >>
    /\ isProcessing = FALSE
    /\ drain = "idle"
    /\ inflight = [i \in Images |-> 0]
    /\ observerTimeout = FALSE
    /\ complete = {}
    /\ dom = [i \in Images |-> InitialDom(i)]
    /\ started = {}
    /\ detectInvoked = {}
    /\ interrupted = {}
    /\ passRan = FALSE
    /\ suppressedAtDisable = {}
    /\ responses = 0
    /\ resetAtUpdate = {}
    /\ detectionsSince = [i \in Images |-> {}]
    /\ threw = {}
    /\ remoteRequests = initializeDetector({})
    /\ timerAge = 0
    /\ quietAge = QuietTicks
    /\ burstPasses = 0
    /\ priorAtApply = [i \in Images |-> Absent]
    /\ PopupClosed

\* compareFaces(fp1, fp2) is called once
Compare ==
    /\ cmpResult = "none"
    /\ cmpResult' = compareFaces(fp1, fp2)
    /\ UNCHANGED << pipeVars, remoteRequests, clockVars, priorAtApply, fp1, fp2, popupVars >>

NextCompare == Compare

SpecCompare == InitCompare /\ [][NextCompare]_vars

\* ------------------------------------------------------- the hash matcher
\* src/unnamed/part_001 (the landmark-hash build of faceRecognition.ts).
\* A hash is a sequence of bits, shortened from 64 to HashLen; landmarks are
\* a list of [x, y] points with coordinates in tenths.

HashLen == 2
Bits == {0, 1}
Hashes == [1..HashLen -> Bits]
Coordinates == {2, 3, 8}
Points == [1..2 -> Coordinates]
LandmarkLists == UNION { [1..n -> Points] : n \in 0..MaxLandmarks }
HashFingerprints == { [hash |-> h, landmarks |-> l] : h \in Hashes, l \in LandmarkLists }

\* Array.prototype.flat() on a list of points
RECURSIVE Flat(_)
Flat(l) == IF l = << >> THEN << >> ELSE Head(l) \o Flat(Tail(l))

\* hammingDistance(a, b) (88-94), over the positions of a
RECURSIVE hammingDistance(_, _, _)
hammingDistance(a, b, k) ==
    IF k = 0 THEN 0
    ELSE (IF k > Len(b) \/ a[k] # b[k] THEN 1 ELSE 0) + hammingDistance(a, b, k - 1)

\* euclideanDistance(arr1, arr2) < threshold (96-103): sqrt(sum) / length,
\* which is NaN, and so not below anything, when arr1 is empty or arr2 is
\* the shorter; threshold in hundredths, coordinates in tenths
landmarkDistanceBelow(arr1, arr2, threshold) ==
    /\ Len(arr1) > 0
    /\ Len(arr2) >= Len(arr1)
    /\ 100 * SumSq(arr1, arr2, Len(arr1)) < Sq(threshold) * Sq(Len(arr1))

\* faulty variant: the fast path on equal hashes is missing
compareFacesHashNoFastPath(a, b, threshold) ==
    IF 10 * hammingDistance(a.hash, b.hash, Len(a.hash)) < 3 * (Len(a.hash) * 4)
    THEN landmarkDistanceBelow(Flat(a.landmarks), Flat(b.landmarks), threshold)
    ELSE FALSE

\* compareFaces(fp1, fp2, threshold) of the hash build (55-74)
compareFacesHash(a, b, threshold) ==
    IF a.hash = b.hash THEN TRUE
    ELSE IF 10 * hammingDistance(a.hash, b.hash, Len(a.hash)) < 3 * (Len(a.hash) * 4)
    THEN landmarkDistanceBelow(Flat(a.landmarks), Flat(b.landmarks), threshold)
    ELSE FALSE

InitCompareHash ==
    /\ fp1 \in HashFingerprints
    /\ fp2 \in HashFingerprints
    /\ cmpResult = "none"
    /\ document = MixedPage
    /\ isEnabled = FALSE
    /\ referenceFingerprints = << >>
    /\ scanTimers = 0
    /\ processedImages = {}
    /\ failedImages = {}
    /\ processingQueue = << >>
    /\ isProcessing = FALSE
    /\ drain = "idle"
    /\ inflight = [i \in Images |-> 0]
    /\ observerTimeout = FALSE
    /\ complete = {}
    /\ dom = [i \in Images |-> InitialDom(i)]
    /\ started = {}
    /\ detectInvoked = {}
    /\ interrupted = {}
    /\ passRan = FALSE
    /\ suppressedAtDisable = {}
    /\ responses = 0
    /\ resetAtUpdate = {}
    /\ detectionsSince = [i \in Images |-> {}]
    /\ threw = {}
    /\ remoteRequests = initializeDetector({})
    /\ timerAge = 0
    /\ quietAge = QuietTicks
    /\ burstPasses = 0
    /\ priorAtApply = [i \in Images |-> Absent]
    /\ PopupClosed

\* compareFaces(fp1, fp2) of the hash build is called once
CompareHash ==
    /\ cmpResult = "none"
    /\ cmpResult' = IF compareFacesHash(fp1, fp2, HashThreshold) THEN "true" ELSE "false"
    /\ UNCHANGED << pipeVars, remoteRequests, clockVars, priorAtApply, fp1, fp2, popupVars >>

NextCompareHash == CompareHash

SpecCompareHash == InitCompareHash /\ [][NextCompareHash]_vars

\* ------------------------------------------------- the observer in time
\* src/src/content.ts:215-250 with a clock of 100 ms ticks. A burst is a
\* run of mutation notifications each less than QuietTicks after the one
\* before.

\* a mutation notification reaches the MutationObserver callback (217-222)
Notification ==
    /\ observerCallback
    /\ timerAge' = IF isEnabled /\ Len(referenceFingerprints) > 0 /\ ~observerTimeout
                   THEN 0 ELSE timerAge
    /\ burstPasses' = IF quietAge >= QuietTicks THEN 0 ELSE burstPasses
    /\ quietAge' = 0
    /\ UNCHANGED << document, isEnabled, referenceFingerprints, processedImages,
                    failedImages, processingQueue, isProcessing, drain, inflight,
                    scanTimers, complete, dom, started, detectInvoked, interrupted,
                    passRan, suppressedAtDisable, responses, resetAtUpdate,
                    detectionsSince, threw, remoteRequests, priorAtApply, cmpVars, popupVars >>

\* 100 ms pass; time does not run past the moment the timer is due
Tick ==
    /\ observerTimeout \/ quietAge < QuietTicks
    /\ observerTimeout => timerAge < QuietTicks
    /\ timerAge' = IF observerTimeout THEN timerAge + 1 ELSE timerAge
    /\ quietAge' = Min(quietAge + 1, QuietTicks)
    /\ UNCHANGED << pipeVars, burstPasses, remoteRequests, priorAtApply, cmpVars, popupVars >>

\* the timer armed by window.setTimeout(..., 300) is due and fires (222-243)
TimedObserverTimerFires ==
    /\ observerTimeout
    /\ timerAge = QuietTicks
    /\ burstPasses < MaxBurstPasses
    /\ QueueHasRoom
    /\ observerPass
    /\ burstPasses' = burstPasses + 1
    /\ timerAge' = 0
    /\ UNCHANGED << document, isEnabled, referenceFingerprints, scanTimers, complete,
                    dom, interrupted, suppressedAtDisable, responses, resetAtUpdate,
                    detectionsSince, threw, remoteRequests, quietAge, priorAtApply,
                    cmpVars, popupVars >>

NextObserver ==
    \/ Notification
    \/ Tick
    \/ TimedObserverTimerFires

SpecObserver == Init /\ [][NextObserver]_vars

\* ------------------------------------------------------------- the popup
\* src/src/popup.ts: upload, remove and clear all, with every await of a
\* face extraction a point where another handler may run. A photo is its
\* id; the fingerprint of a photo is a function of the photo.

Photos == 1 .. MaxPhotos
HasFace(p) == p # 1
\* the null extractFaceFromImage resolves with when it finds no face
NoFace == [descriptor |-> NoFile]

\* faceRecognition.ts 87-134: a fingerprint, or null when no face is found
extractFaceFromImage(p) == IF HasFace(p) THEN [descriptor |-> p] ELSE NoFace

RECURSIVE FingerprintsOf(_)
FingerprintsOf(images) ==
    IF images = << >> THEN << >>
    ELSE LET f == extractFaceFromImage(Head(images))
         IN (IF f = NoFace THEN << >> ELSE << f >>) \o FingerprintsOf(Tail(images))

Elements(s) == { s[k] : k \in DOMAIN s }

\* what storage holds when the popup opens
StoredChoices == { << >>, << 2 >>, << 2, 3 >> }

\* referenceImages = referenceImages.filter(...) and referenceImages = []
\* make a new array: the calls in progress keep iterating the old one
Detached(rs) == [k \in DOMAIN rs |-> [rs[k] EXCEPT !.live = FALSE]]

\* referenceImages.push(...) extends the array in place: a for-of over
\* that same array comes to the new element
Pushed(rs, p) ==
    [k \in DOMAIN rs |-> IF rs[k].live THEN [rs[k] EXCEPT !.images = Append(@, p)]
                                       ELSE rs[k]]

\* chrome.storage.local.set({ referenceImages, faceFingerprints }, ...) and
\* its callback (135-156): the array the variable holds now is stored with
\* the fingerprints this call collected; the list is displayed again and
\* the fingerprints are sent to the tabs
storageSet(images, fingerprints) ==
    /\ stored' = [referenceImages |-> images, faceFingerprints |-> fingerprints]
    /\ displayed' = Elements(images)
    /\ broadcast' = fingerprints

\* saveAndDisplay() up to its first await (127-131); with an empty array
\* the loop body never runs and the set is made at once
saveAndDisplay(images, rs) ==
    IF images = << >>
    THEN /\ storageSet(images, << >>)
         /\ runs' = rs
    ELSE /\ runs' = Append(rs, [images |-> images, live |-> TRUE, next |-> 1,
                                fingerprints |-> << >>])
         /\ UNCHANGED << stored, displayed, broadcast >>

ContentFrame == UNCHANGED << pipeVars, remoteRequests, clockVars, priorAtApply, cmpVars >>

InitPopup ==
    /\ \E images \in StoredChoices :
          /\ referenceImages = images
          /\ stored = [referenceImages |-> images,
                       faceFingerprints |-> FingerprintsOf(images)]
          /\ displayed = Elements(images)
          /\ broadcast = FingerprintsOf(images)
          /\ uploaded = Elements(images)
    /\ runs = << >>
    /\ uploading = NoFile
    /\ document = MixedPage
    /\ isEnabled = FALSE
    /\ referenceFingerprints = << >>
    /\ scanTimers = 0
    /\ processedImages = {}
    /\ failedImages = {}
    /\ processingQueue = << >>
    /\ isProcessing = FALSE
    /\ drain = "idle"
    /\ inflight = [i \in Images |-> 0]
    /\ observerTimeout = FALSE
    /\ complete = {}
    /\ dom = [i \in Images |-> InitialDom(i)]
    /\ started = {}
    /\ detectInvoked = {}
    /\ interrupted = {}
    /\ passRan = FALSE
    /\ suppressedAtDisable = {}
    /\ responses = 0
    /\ resetAtUpdate = {}
    /\ detectionsSince = [i \in Images |-> {}]
    /\ threw = {}
    /\ remoteRequests = initializeDetector({})
    /\ timerAge = 0
    /\ quietAge = QuietTicks
    /\ burstPasses = 0
    /\ priorAtApply = [i \in Images |-> Absent]
    /\ fp1 = [descriptor |-> NoDescriptor]
    /\ fp2 = [descriptor |-> NoDescriptor]
    /\ cmpResult = "none"

\* a file is chosen (69-76) and handleFiles awaits its reading and its
\* face extraction (91-92); the button is disabled meanwhile (88)
ChangeFiles(p) ==
    /\ uploading = NoFile
    /\ p \in Photos \ uploaded
    /\ uploading' = p
    /\ uploaded' = uploaded \cup {p}
    /\ UNCHANGED << referenceImages, runs, displayed, stored, broadcast >>
    /\ ContentFrame

\* the extraction of the uploaded file resolves: the photo is pushed if a
\* face was found (94-101) and the list is saved if it is not empty (111-113)
FileProcessed ==
    /\ uploading # NoFile
    /\ LET p == uploading
           found == extractFaceFromImage(p) # NoFace
           images == IF found THEN Append(referenceImages, p) ELSE referenceImages
           rs == IF found THEN Pushed(runs, p) ELSE runs
       IN /\ Len(images) > 0 => Len(runs) < MaxRuns
          /\ referenceImages' = images
          /\ IF Len(images) > 0
             THEN saveAndDisplay(images, rs)
             ELSE /\ runs' = rs
                  /\ UNCHANGED << stored, displayed, broadcast >>
    /\ uploading' = NoFile
    /\ UNCHANGED uploaded
    /\ ContentFrame

\* the extraction a saveAndDisplay call awaits resolves (131-133); after
\* the last element the set is made (135)
ExtractionResolves(k) ==
    /\ k \in DOMAIN runs
    /\ LET r == runs[k]
           f == extractFaceFromImage(r.images[r.next])
           fingerprints == IF f = NoFace THEN r.fingerprints
                                         ELSE Append(r.fingerprints, f)
       IN IF r.next = Len(r.images)
          THEN /\ storageSet(referenceImages, fingerprints)
               /\ runs' = [j \in 1 .. Len(runs) - 1 |->
                              IF j < k THEN runs[j] ELSE runs[j + 1]]
          ELSE /\ runs' = [runs EXCEPT ![k] = [r EXCEPT !.next = @ + 1,
                                                        !.fingerprints = fingerprints]]
               /\ UNCHANGED << stored, displayed, broadcast >>
    /\ UNCHANGED << referenceImages, uploading, uploaded >>
    /\ ContentFrame

\* the remove button of a displayed photo is clicked (181-186)
RemoveClick(p) ==
    /\ p \in displayed
    /\ LET images == SelectSeq(referenceImages, LAMBDA q : q # p)
       IN /\ images # << >> => Len(runs) < MaxRuns
          /\ referenceImages' = images
          /\ saveAndDisplay(images, Detached(runs))
    /\ UNCHANGED << uploading, uploaded >>
    /\ ContentFrame

\* clear all is clicked and confirmed (57-64)
ClearAllClick ==
    /\ Len(referenceImages) > 0
    /\ referenceImages' = << >>
    /\ saveAndDisplay(<< >>, Detached(runs))
    /\ UNCHANGED << uploading, uploaded >>
    /\ ContentFrame

NextPopup ==
    \/ \E p \in Photos : ChangeFiles(p)
    \/ FileProcessed
    \/ \E k \in 1 .. MaxRuns : ExtractionResolves(k)
    \/ \E p \in Photos : RemoveClick(p)
    \/ ClearAllClick

SpecPopup == InitPopup /\ [][NextPopup]_vars

\* --------------------------------------------- the controller on its own
\* blurImage, the click handler and unblurImage applied in any order to one
\* image whose inline filter, before the script touches it, is drawn from
\* PriorFilters.

Targets == {2, 3}
PriorFilters == {"", "none", "grayscale(1)", "blur(2px)"}

InitSuppress ==
    /\ \E f \in [Targets -> PriorFilters] :
          dom = [i \in Images |-> IF i \in Targets
                                  THEN [InitialDom(i) EXCEPT !.filter = f[i]]
                                  ELSE InitialDom(i)]
    /\ priorAtApply = [i \in Images |-> Absent]
    /\ document = MixedPage
    /\ isEnabled = FALSE
    /\ referenceFingerprints = << >>
    /\ scanTimers = 0
    /\ processedImages = {}
    /\ failedImages = {}
    /\ processingQueue = << >>
    /\ isProcessing = FALSE
    /\ drain = "idle"
    /\ inflight = [i \in Images |-> 0]
    /\ observerTimeout = FALSE
    /\ complete = {}
    /\ started = {}
    /\ detectInvoked = {}
    /\ interrupted = {}
    /\ passRan = FALSE
    /\ suppressedAtDisable = {}
    /\ responses = 0
    /\ resetAtUpdate = {}
    /\ detectionsSince = [i \in Images |-> {}]
    /\ threw = {}
    /\ remoteRequests = initializeDetector({})
    /\ timerAge = 0
    /\ quietAge = QuietTicks
    /\ burstPasses = 0
    /\ fp1 = [descriptor |-> NoDescriptor]
    /\ fp2 = [descriptor |-> NoDescriptor]
    /\ cmpResult = "none"
    /\ PopupClosed

\* what an action on the image's element leaves alone
ElementFrame ==
    UNCHANGED << document, isEnabled, referenceFingerprints, processedImages,
                 failedImages, processingQueue, isProcessing, drain, inflight,
                 scanTimers, observerTimeout, complete, started, detectInvoked,
                 interrupted, passRan, suppressedAtDisable, responses, resetAtUpdate,
                 detectionsSince, threw, remoteRequests, clockVars, cmpVars, popupVars >>

\* blurImage(img) is called (176-202)
Apply(i) ==
    /\ ~dom[i].blurred => dom[i].listeners < MaxListeners
    /\ dom' = [dom EXCEPT ![i] = blurImage(@)]
    /\ priorAtApply' = IF dom[i].blurred THEN priorAtApply
                       ELSE [priorAtApply EXCEPT ![i] = dom[i].filter]
    /\ ElementFrame

\* unblurImage(img) is called on an image that carries the marker (205-212)
Remove(i) ==
    /\ dom[i].blurred
    /\ dom' = [dom EXCEPT ![i] = unblurImage(@)]
    /\ UNCHANGED priorAtApply
    /\ ElementFrame

NextSuppress ==
    \/ \E i \in Targets : Apply(i)
    \/ \E i \in Targets : Remove(i)
    \/ \E i \in Targets : Click(i)

SpecSuppress == InitSuppress /\ [][NextSuppress]_vars

\* ------------------------------------------------------------------ claims

\* nothing is pending: no timer, no queued entry, no call in flight
Settled ==
    /\ scanTimers = 0
    /\ ~observerTimeout
    /\ ~isProcessing
    /\ processingQueue = << >>
    /\ InFlight(inflight) = {}

TooSmall(i) == naturalWidth(i) < MIN_IMAGE_SIZE \/ naturalHeight(i) < MIN_IMAGE_SIZE

Queued(i) == \E k \in 1..Len(processingQueue) : processingQueue[k] = i

\* C1: the processImage calls that have started and not yet settled never
\* number more than MAX_CONCURRENT.
C1_BoundedInFlight == InFlightCount <= MAX_CONCURRENT

\* C1 witness: a full batch is in flight while more entries wait in the queue.
C1_Witness == InFlightCount = MAX_CONCURRENT /\ Len(processingQueue) > 0

\* C2, as claimed: an updateReferences message clears the marker on every
\* image and takes every image out of the processed set, so that the next
\* scan finds each of them eligible again.
C2_AllProcessedRequeued ==
    [][ (\E fingerprints \in RefChoices : UpdateReferencesMessage(fingerprints))
          => /\ BlurredImages(dom') = {}
             /\ processedImages' = {} ]_vars

\* C3, as claimed: while the feature is off or the reference set is empty,
\* no step appends to the queue and no step starts a processImage call.
C3_NoWorkWhileOff ==
    [][ (~isEnabled \/ Len(referenceFingerprints) = 0)
          => /\ Len(processingQueue') <= Len(processingQueue)
             /\ \A i \in Images : inflight'[i] <= inflight[i]
             /\ started' = started ]_vars

\* C4: a call in flight ends only by committing its image to processed or
\* failed, whatever messages arrive meanwhile: every image that was in
\* processing when the latest message arrived is still in processing or is
\* in processed or failed, and no step lowers an image's calls in flight
\* without leaving the image in one of the two sets.
C4_InFlightCommitted ==
    \A i \in interrupted :
        inflight[i] > 0 \/ i \in processedImages \cup failedImages

\* C4, step by step: no step lowers an image's calls in flight without
\* leaving the image in processed or failed.
C4_NoRollback ==
    [][ \A i \in Images :
          inflight'[i] < inflight[i] => i \in processedImages' \cup failedImages' ]_vars

\* C4 witness: an image that was in processing when a message arrived has
\* settled into processed or failed.
C4_Witness ==
    \E i \in interrupted : inflight[i] = 0 /\ i \in processedImages \cup failedImages

C6_SuppressedAgainAfterReenable ==
    (isEnabled /\ Len(referenceFingerprints) > 0 /\ Settled) =>
        \A i \in suppressedAtDisable : dom[i].blurred

\* a detection and a reference that compareFaces declares the same face
AnyMatch(dets, refs) ==
    \E d \in 1..Len(dets) : \E r \in 1..Len(refs) :
        compareFaces(createFingerprint(dets[d]), refs[r]) = "true"

NoThrow(dets, refs) ==
    \A d \in 1..Len(dets) : \A r \in 1..Len(refs) :
        compareFaces(createFingerprint(dets[d]), refs[r]) # "throw"

\* a matching pair that no throwing pair precedes, detections first
MatchBeforeThrow(dets, refs) ==
    \E d \in 1..Len(dets) : \E r \in 1..Len(refs) :
        /\ compareFaces(createFingerprint(dets[d]), refs[r]) = "true"
        /\ \A d2 \in 1..Len(dets) : \A r2 \in 1..Len(refs) :
              (d2 < d \/ (d2 = d /\ r2 < r))
                 => compareFaces(createFingerprint(dets[d2]), refs[r2]) # "throw"

\* C7, as claimed: when processImage resumes with the detections of an
\* image, the image carries the marker afterwards iff some detection
\* matches some fingerprint of the current reference set.
C7_SuppressIffAnyMatch ==
    [][ \A i \in Images : \A detections \in DetectOutcomes(i) :
          DetectionCompletes(i, detections)
             => (dom'[i].blurred <=>
                    (dom[i].blurred \/ AnyMatch(detections, referenceFingerprints))) ]_vars

\* C7, amended: the image carries the marker afterwards iff a matching pair
\* is reached before any comparison throws; when no comparison throws that
\* is the existence of a matching pair, whatever the orderings.
C7_SuppressIffMatchBeforeThrow ==
    [][ \A i \in Images : \A detections \in DetectOutcomes(i) :
          DetectionCompletes(i, detections)
             => /\ dom'[i].blurred <=>
                     (dom[i].blurred \/ MatchBeforeThrow(detections, referenceFingerprints))
                /\ NoThrow(detections, referenceFingerprints)
                     => (dom'[i].blurred <=>
                           (dom[i].blurred \/ AnyMatch(detections, referenceFingerprints))) ]_vars

\* C7 witness: an image is suppressed on a match that precedes a reference
\* whose comparison would throw.
C7_Witness ==
    \E i \in document :
        /\ dom[i].blurred
        /\ AnyMatch(Faces(i), referenceFingerprints)
        /\ ~NoThrow(Faces(i), referenceFingerprints)

\* C8: an image whose pixels cannot be read is never handed to detection,
\* never in processing, never processed and never suppressed; once
\* processImage has been called on it, it is in failed.
C8_UnreadableFails ==
    \A i \in document :
        ~PixelsReadable(i) => /\ i \notin detectInvoked
                              /\ inflight[i] = 0
                              /\ i \notin processedImages
                              /\ ~dom[i].blurred
                              /\ i \in started => i \in failedImages

\* C8 witness: processImage has been called on an unreadable image.
C8_Witness ==
    \E i \in started : ~PixelsReadable(i) /\ i \in failedImages

\* C9: blurImage applied to an image a second time changes nothing, and
\* applied to an image that carries the marker it changes nothing at all,
\* also while the image is temporarily revealed.
C9_BlurIdempotent ==
    \A i \in document :
        /\ blurImage(blurImage(dom[i])) = blurImage(dom[i])
        /\ dom[i].blurred => blurImage(dom[i]) = dom[i]

\* C9 witness: a suppressed image that a click has temporarily revealed.
C9_Witness ==
    \E i \in document :
        /\ dom[i].blurred
        /\ dom[i].filter = "none"
        /\ dom[i].title = "Click to blur again"

\* C10: compareFaces on two fingerprints with the same descriptor vector
\* returns true.
C10_IdenticalVectorsMatch ==
    ( /\ cmpResult # "none"
      /\ fp1.descriptor # NoDescriptor
      /\ fp1.descriptor = fp2.descriptor ) => cmpResult = "true"

\* C10 witness: two fingerprints with one non-empty vector were compared.
C10_Witness ==
    /\ cmpResult = "true"
    /\ fp1.descriptor # NoDescriptor
    /\ fp1.descriptor = fp2.descriptor
    /\ Len(fp1.descriptor) > 0

\* one fingerprint has no descriptor, or both have one and the lengths differ
LengthMismatch(a, b) ==
    \/ (a.descriptor = NoDescriptor) # (b.descriptor = NoDescriptor)
    \/ /\ a.descriptor # NoDescriptor
       /\ b.descriptor # NoDescriptor
       /\ Len(a.descriptor) # Len(b.descriptor)

\* C11, as claimed: compareFaces on two fingerprints whose vectors differ in
\* length, a fingerprint without a descriptor included, raises an error and
\* returns neither true nor false.
C11_MismatchThrows ==
    (cmpResult # "none" /\ LengthMismatch(fp1, fp2)) => cmpResult = "throw"

\* C12: the hash build's compareFaces returns true on two fingerprints with
\* the same hash string, whatever their landmark lists hold and however
\* long they are.
C12_SameHashMatches ==
    (cmpResult # "none" /\ fp1.hash = fp2.hash) => cmpResult = "true"

\* C12 witness: two fingerprints with one hash and landmark lists of
\* different lengths were compared.
C12_Witness ==
    /\ cmpResult = "true"
    /\ fp1.hash = fp2.hash
    /\ Len(fp1.landmarks) # Len(fp2.landmarks)

\* the listener of chrome.runtime.onMessage runs on one message
MessageHandled ==
    \/ \E enabled \in BOOLEAN : ToggleBlurMessage(enabled)
    \/ ScanPageMessage
    \/ \E fingerprints \in RefChoices : UpdateReferencesMessage(fingerprints)
    \/ UnknownMessage

\* C13: the task that handles a message, whatever its action, calls
\* sendResponse exactly once, and in that task no discovery pass runs, no
\* processImage call starts and detection is invoked on nothing, also
\* while a drain is running; no other task calls sendResponse.
C13_AckInHandlerTurn ==
    [][ /\ MessageHandled
           => /\ responses' = 1
              /\ started' = started
              /\ detectInvoked' = detectInvoked
              /\ inflight' = inflight
              /\ passRan' = passRan
        /\ ~MessageHandled => responses' = 0 ]_vars

\* C13 witness: a message was acknowledged while a batch was awaiting and
\* the scan it asked for is still pending.
C13_Witness ==
    /\ responses = 1
    /\ isProcessing
    /\ InFlight(inflight) # {}
    /\ scanTimers > 0

\* C14, the swap: an updateReferences message installs the new set and, in
\* the same step, every image that carried the marker loses it and leaves
\* both the processed and the failed set.
C14_SwapResetsSuppressed ==
    [][ \A fingerprints \in RefChoices :
          UpdateReferencesMessage(fingerprints)
             => /\ referenceFingerprints' = fingerprints
                /\ \A i \in BlurredImages(dom) :
                      /\ ~dom'[i].blurred
                      /\ i \notin processedImages' \cup failedImages' ]_vars

\* C14, as claimed: with the feature on, the new set non-empty and nothing
\* pending, every image that carried the marker when the set was replaced
\* has been evaluated again and carries the marker iff a face that
\* detection has returned for it since matches a fingerprint of the new set.
C14_ReevaluatedIffAnyMatch ==
    (isEnabled /\ Len(referenceFingerprints) > 0 /\ Settled) =>
        \A i \in resetAtUpdate :
            /\ i \in processedImages \cup failedImages
            /\ detectionsSince[i] # {}
            /\ dom[i].blurred <=>
                  \E d \in detectionsSince[i] : AnyMatch(d, referenceFingerprints)

\* C14, amended: under the same conditions every such image has been
\* evaluated again, against the new set, and carries the marker iff in one
\* of these evaluations a matching pair was reached before any comparison
\* threw; when no comparison can throw, that is iff some returned face
\* matches the new set, and the image is in processed.
C14_ReevaluatedIffMatchBeforeThrow ==
    (isEnabled /\ Len(referenceFingerprints) > 0 /\ Settled) =>
        \A i \in resetAtUpdate :
            /\ i \in processedImages \cup failedImages
            /\ detectionsSince[i] # {}
            /\ dom[i].blurred <=>
                  \E d \in detectionsSince[i] : MatchBeforeThrow(d, referenceFingerprints)
            /\ (\A d \in detectionsSince[i] : NoThrow(d, referenceFingerprints))
                  => /\ i \in processedImages
                     /\ dom[i].blurred <=>
                           \E d \in detectionsSince[i] : AnyMatch(d, referenceFingerprints)

\* C14 witnesses: after a replacement and the rescan, an image that was
\* suppressed under the old set is suppressed again under the new one.
C14_Witness ==
    /\ isEnabled
    /\ Settled
    /\ \E i \in resetAtUpdate : dom[i].blurred /\ i \in processedImages

\* how often an image occurs in the queue
Occurrences(q, i) == Cardinality({ k \in 1..Len(q) : q[k] = i })

\* the lifecycle states an image is in
LifecycleStates(i) ==
    (IF Queued(i) THEN {"queued"} ELSE {})
      \cup (IF inflight[i] > 0 THEN {"processing"} ELSE {})
      \cup (IF i \in processedImages THEN {"processed"} ELSE {})
      \cup (IF i \in failedImages THEN {"failed"} ELSE {})

\* C15, as claimed: every image is in at most one of the lifecycle states
\* queued, processing, processed and failed.
C15_OneLifecycleState ==
    \A i \in document : Cardinality(LifecycleStates(i)) <= 1

\* C15, the particular case as claimed: no image is in both the processed
\* and the failed set.
C15_NeverProcessedAndFailed ==
    \A i \in document : ~(i \in processedImages /\ i \in failedImages)

\* C16: no step appends to the queue, or starts a processImage call that
\* reaches detection on, an image that is in processed or failed; that
\* holds for failed images as for processed ones, and for every step, a
\* reference-set replacement included (it only takes images out of the sets).
C16_NoRequeueOnceSettled ==
    [][ \A i \in processedImages \cup failedImages :
          /\ Occurrences(processingQueue', i) <= Occurrences(processingQueue, i)
          /\ inflight'[i] <= inflight[i] ]_vars

\* C16 witness: a discovery pass has run while one image was already in
\* failed: another image was queued again while in processing, the failed
\* one was not.
C16_Witness ==
    \E i \in failedImages : \E j \in document :
        /\ ~Queued(i)
        /\ inflight[i] = 0
        /\ Queued(j)
        /\ inflight[j] > 0

\* C17, as claimed: the extension has fetched from no remote URL.
C17_NoNetworkRequest == remoteRequests = {}

\* C18: a batch is started only when no processImage call of an earlier
\* batch is still awaiting, one loop of processQueue is active exactly
\* while isProcessing is set, and the loop never ends with entries left
\* in the queue.
C18_NoOverlappingDrains ==
    /\ [][ (\E i \in Images : inflight'[i] > inflight[i]) => InFlight(inflight) = {} ]_vars
    /\ [](isProcessing <=> drain # "idle")
    /\ [](InFlight(inflight) # {} <=> drain = "batch")
    /\ [](~isProcessing => processingQueue = << >>)

\* C18 witness: while a batch is awaiting, a command has arrived and a
\* discovery pass has appended entries, which wait in the queue.
C18_Witness ==
    /\ drain = "batch"
    /\ interrupted # {}
    /\ interrupted \subseteq InFlight(inflight)
    /\ Len(processingQueue) > 0

\* C19, as claimed: the queue never holds an image twice, and never holds
\* an image that is in processing, processed or failed.
C19_QueueHoldsOnlyNewImages ==
    \A i \in document :
        /\ Occurrences(processingQueue, i) <= 1
        /\ Queued(i) => /\ inflight[i] = 0
                         /\ i \notin processedImages
                         /\ i \notin failedImages

\* C20: a processImage call whose matching throws leaves its image in
\* failed and unsuppressed by that call, and changes nothing else: the
\* other calls of the batch stay in flight (and commit when they resume,
\* C4), the queue is untouched, and when it was the last call of the batch
\* the loop goes on to the next batch if entries are left and resets
\* isProcessing if not. Every image whose call threw is in failed, and
\* the loop never ends while entries are left in the queue.
C20_ThrowIsContained ==
    /\ [][ \A i \in Images : \A detections \in DetectOutcomes(i) :
            ( /\ DetectionCompletes(i, detections)
              /\ MatchDetections(detections, referenceFingerprints) = "throw" )
              => /\ i \in failedImages'
                 /\ dom' = dom
                 /\ processedImages' = processedImages
                 /\ processingQueue' = processingQueue
                 /\ \A j \in Images \ {i} : inflight'[j] = inflight[j]
                 /\ inflight'[i] = inflight[i] - 1
                 /\ InFlight(inflight') = {}
                       => IF processingQueue' = << >>
                          THEN ~isProcessing' /\ drain' = "idle"
                          ELSE isProcessing' /\ drain' = "delay" ]_vars
    /\ [](\A i \in threw : i \in failedImages)
    /\ [](~isProcessing => processingQueue = << >>)

\* C20 witness: the call on one image of a batch threw, the image is in
\* failed, the four other images of its batch went through detection and
\* are in processed, and the loop has ended with isProcessing reset.
C20_Witness ==
    /\ Settled
    /\ \E i \in threw :
          /\ i \in failedImages
          /\ \A j \in document \ {i} : j \in processedImages /\ j \in detectInvoked
    /\ Cardinality(document) > MAX_CONCURRENT - 1

\* C21, as claimed: an image on which the detection call throws is never in
\* processed, and once its processImage call has ended it is in failed.
C21_DetectionFailureFails ==
    \A i \in document :
        DetectionThrows(i) =>
            /\ i \notin processedImages
            /\ (i \in detectInvoked /\ inflight[i] = 0) => i \in failedImages

\* the hashes differ in at least 30% of their bits
DifferInThreeTenths(a, b) == 10 * hammingDistance(a, b, Len(a)) >= 3 * Len(a)

\* C22, as claimed: the hash build's compareFaces returns false on two
\* fingerprints whose hashes are not identical and differ in at least 30%
\* of their bits, whatever the landmark lists hold.
C22_GateRejectsFarHashes ==
    ( /\ cmpResult # "none"
      /\ fp1.hash # fp2.hash
      /\ DifferInThreeTenths(fp1.hash, fp2.hash) ) => cmpResult = "false"

\* C23, as claimed: an observer pass runs only once the burst has gone
\* quiet, QuietTicks after its latest notification, and it is the only
\* pass of that burst.
C23_OnePassAfterQuiet ==
    [][ TimedObserverTimerFires => (quietAge >= QuietTicks /\ burstPasses = 0) ]_vars

\* C23, amended: while a pass is pending a further notification schedules
\* no additional pass and does not postpone the pending one; the pass runs
\* QuietTicks after the notification that armed the timer, however recent
\* the latest notification is, and clears the timer so that the next
\* notification arms it again.
C23_OnePendingPassFromFirstNotification ==
    /\ [][ (Notification /\ observerTimeout)
             => (observerTimeout' /\ timerAge' = timerAge) ]_vars
    /\ [][ TimedObserverTimerFires
             => (timerAge = QuietTicks /\ ~observerTimeout' /\ passRan') ]_vars
    /\ [](observerTimeout => (timerAge <= QuietTicks /\ quietAge <= timerAge))

\* C23 witness: a second pass has run within one burst, less than
\* QuietTicks after the latest notification.
C23_Witness ==
    /\ burstPasses = 2
    /\ quietAge < QuietTicks
    /\ passRan

\* C24, as claimed: once a discovery pass has run and nothing is pending
\* (no timer, no queued entry, no call in flight), so that nothing more
\* happens without a further mutation or command, every loaded image of
\* sufficient size has reached processed or failed.
C24_LoadedImagesGetClassified ==
    (isEnabled /\ Len(referenceFingerprints) > 0 /\ passRan /\ Settled) =>
        \A i \in document :
            (i \in complete /\ ~TooSmall(i)) => i \in processedImages \cup failedImages

\* C25, as claimed: a click on an image that does not carry the marker
\* (never suppressed, or suppression fully removed) changes nothing on it.
C25_ClickInertAfterRemoval ==
    [][ \A i \in Images : (Click(i) /\ ~dom[i].blurred) => dom'[i] = dom[i] ]_vars

\* C26, as claimed: an image that carries the marker has exactly one
\* toggle handler attached, and a click on it flips it between obscured
\* and revealed.
C26_OneHandlerWhenSuppressed ==
    /\ [](\A i \in document : dom[i].blurred => dom[i].listeners = 1)
    /\ [][ \A i \in Images : (Click(i) /\ dom[i].blurred)
             => (IncludesBlur(dom'[i].filter) # IncludesBlur(dom[i].filter)) ]_vars

\* C27, as claimed: unblurImage on a suppressed image, after any number of
\* clicks, leaves the inline filter the image had before blurImage and
\* leaves neither the marker nor the recorded original filter.
C27_RemoveRestoresPriorFilter ==
    [][ \A i \in Targets :
          Remove(i) => /\ dom'[i].filter = priorAtApply[i]
                       /\ ~dom'[i].blurred
                       /\ dom'[i].originalFilter = Absent ]_vars

\* C28: every image that carries the marker is in the processed set: no
\* step sets the marker without leaving the image in processed, and no
\* step takes a marked image out of processed without clearing the marker.
C28_SuppressedOnlyWhenProcessed ==
    /\ [](\A i \in document : dom[i].blurred => i \in processedImages)
    /\ [][ \A i \in Images :
             /\ (dom'[i].blurred /\ ~dom[i].blurred) => i \in processedImages'
             /\ (dom[i].blurred /\ i \notin processedImages') => ~dom'[i].blurred ]_vars

\* C28 witness: an image was suppressed, a replacement took it out of
\* processed and cleared its marker, and the rescan has suppressed it and
\* put it in processed again.
C28_Witness ==
    \E i \in resetAtUpdate :
        /\ dom[i].blurred
        /\ i \in processedImages
        /\ dom[i].listeners = 2

\* C29: every image that carries the marker has a detected face that
\* matches a fingerprint of the reference set of that state; a replacement
\* leaves no image marked.
C29_SuppressedMatchesCurrentSet ==
    /\ [](\A i \in document :
             dom[i].blurred => AnyMatch(Faces(i), referenceFingerprints))
    /\ [][ (\E fingerprints \in RefChoices : UpdateReferencesMessage(fingerprints))
             => BlurredImages(dom') = {} ]_vars

\* C29 witness: an image that lost its marker at a replacement carries it
\* again and matches the set now in force, a set of two fingerprints.
C29_Witness ==
    \E i \in resetAtUpdate :
        /\ dom[i].blurred
        /\ Len(referenceFingerprints) = 2
        /\ AnyMatch(Faces(i), referenceFingerprints)

\* C30, as claimed: while the feature is off and no processImage call is
\* in flight, no image carries the marker or the obscuring filter.
C30_NothingSuppressedWhileOff ==
    (~isEnabled /\ InFlight(inflight) = {}) =>
        \A i \in document : ~dom[i].blurred /\ dom[i].filter # "blur(20px)"

\* a discovery pass pushes onto the queue (64, 240)
Appended == Len(processingQueue') > Len(processingQueue)

PopupSettled == runs = << >> /\ uploading = NoFile

\* C32: once the popup operations have settled, the stored
\* faceFingerprints are exactly the fingerprints of the stored
\* referenceImages, and so is the list last sent to the tabs.
C32_PersistedFingerprintsMatchPhotos ==
    PopupSettled =>
        /\ stored.faceFingerprints = FingerprintsOf(stored.referenceImages)
        /\ broadcast = FingerprintsOf(stored.referenceImages)

====
